---------------------------- MODULE Spec2Model ----------------------------
(***************************************************************************)
(* A model of the spacecode host programs:                                 *)
(*   - BotSandbox            (src/depl/deployer.py, driven by src/test.py  *)
(*                            and src/dcbot.py)                            *)
(*   - WasmDeployer, CPythonWasmDeployer, WasmBotRunner                    *)
(*                           (src/lib/wasm_deployer.py,                    *)
(*                            src/lib/cpython_wasm_deployer.py,            *)
(*                            src/standalone.py)                           *)
(*   - Environment / Puck    (src/depl/game/puck.py)                       *)
(*   - Game / PhysicsSystem  (src/lib/sim.py)                              *)
(* These are separate programs: the variable program says which of them a  *)
(* behaviour runs, and the variables of the others keep their initial      *)
(* values.                                                                 *)
(***************************************************************************)
EXTENDS Integers, Sequences, FiniteSets, TLC

VARIABLES
    program,      \* which host program this behaviour runs
    \* ---- BotSandbox (src/depl/deployer.py) ----
    sbPc,         \* "unloaded" | "failed" | "loaded" | "ready" | "running" | "looping"
    sbEntry,      \* the export being run: "none" | "init" | "update"
    sbStore,      \* the wasmtime.Store of the sandbox: [consume_fuel, fuel]
    sbInstance,   \* id of the instance held in self._instance (0: none)
    sbMem,        \* guest linear memory of that instance (one cell)
    sbSpin,       \* guest program counter inside an endless loop
    sbAction,     \* self.action, a complex number <<re, im>>
    sbColor,      \* self.color, <<r, g, b>>
    sbOutcome,    \* how the last call ended: "none" | "returned" | "raised"
    sbRet,        \* the value the last update returned (0 until it returns)
    sbReported,   \* send_action accepted a value during the current/last call
    sbLastValid,  \* the last set_color report that was finite and in range
    sbEntryMem,   \* guest memory seen when the current/last call began
    sbExitMem,    \* guest memory left when the previous call ended
    sbCalls,      \* whether an earlier call has ended (init or update)
    sbServing,    \* id of the instance the current/last call ran on
    submitReply,  \* dcbot.on_message's answer: "none" | "success" | "error"
    sbFile,       \* the module file last given to BotSandbox(path)
    sbLastReport, \* the last set_color report: "none" | "valid" | "nonfinite" | "range"
    \* ---- WasmDeployer (src/lib/wasm_deployer.py) ----
    dpMaxFuel,    \* self.max_fuel
    dpPc,         \* "idle" | "running" | "looping": where execute is
    dpFuel,       \* fuel left in the store of the current/last execution
    dpMem,        \* guest memory of the instance of that execution
    dpSpin,       \* guest program counter inside an endless loop
    dpOutcome,    \* how the last execute ended: "none" | "returned" | "raised"
    dpResult,     \* the ExecutionResult it returned
    dpEntryMem,   \* guest memory seen when the current/last execution began
    dpExitMem,    \* guest memory left when the previous execution ended
    dpCalls,      \* whether an earlier execution ran guest code to its end
    \* ---- WasmBotRunner (src/standalone.py) ----
    bots,         \* self.bots: bot_id -> script
    regOk,        \* what the last register_bot returned
    lastOp,       \* the last runner call: "none" | "register" | "execute"
    lastBot,      \* its bot_id
    lastScript,   \* the script of the last register_bot
    exActions,    \* the action set the last execute_bot returned
    exRan,        \* whether that execute_bot called the deployer
    exStatus,     \* the status of the ExecutionResult it got
    exFresh,      \* whether that call ran on a store and instance made for it
    botsBefore,   \* self.bots as it was before the last runner call
    \* ---- Environment (src/depl/game/puck.py) ----
    pucks,        \* the pucks of self.players: <<[pos, vel], ...>>
    pkLast,       \* the last apply_action call and the velocity it found
    pkApplied,    \* number of apply_action calls so far
    pkUpdate,     \* the last update call: the pucks before it, after its
                  \* collision phase, and its arguments
    pkUpdates,    \* number of update calls so far
    pkConfig,     \* self.config of the Environment: damping as num / den
    \* ---- Game (src/lib/sim.py) ----
    gmBodies,     \* Game.bodies, in insertion order
    gmReplay,     \* the bodies of a second Game fed the same action maps
    gmLast,       \* the action set of the last step; whether the orders differed
    gmTicks,      \* number of Game.step calls so far
    \* ---- Game observed tick by tick (src/lib/sim.py, src/standalone.py) ----
    mtBodies,     \* Game.bodies, in insertion order
    mtTypes,      \* type(body) of each of them: "Ship" | "Body"
    mtLast,       \* the last Game.step: the bodies before it, after the input
                  \* phase and after the gravity phase, and its arguments
    mtTicks,      \* number of Game.step calls so far
    \* ---- Game.generate_relative_view (src/lib/sim.py) ----
    vwBodies,     \* Game.bodies, in insertion order
    vwTypes,      \* type(body) of each of them: "Ship" | "Body"
    vwView,       \* what the last generate_relative_view call gave, and when
    vwSteps,      \* number of Game.step calls so far
    \* ---- PhysicsSystem.integrate_forces on complex orientations (src/lib/sim.py) ----
    rvBody,       \* a Body whose rot and old_rot are complex numbers in hundredths
    rvSpins,      \* number of integrate_forces calls so far
    \* ---- JSONCommunicationChannel (src/lib/wasm_deployer.py) ----
    jsChan        \* a dict handed to the channel and what the calls made of it

sbVars == <<sbPc, sbEntry, sbStore, sbInstance, sbMem, sbSpin, sbAction, sbColor,
            sbOutcome, sbRet, sbReported, sbLastValid, sbEntryMem, sbExitMem,
            sbCalls, sbServing, submitReply, sbFile, sbLastReport>>

dpVars == <<dpMaxFuel, dpPc, dpFuel, dpMem, dpSpin, dpOutcome, dpResult,
            dpEntryMem, dpExitMem, dpCalls>>

rnVars == <<bots, regOk, lastOp, lastBot, lastScript, exActions, exRan, exStatus,
            exFresh, botsBefore>>

pkVars == <<pucks, pkLast, pkApplied, pkUpdate, pkUpdates, pkConfig>>

gmVars == <<gmBodies, gmReplay, gmLast, gmTicks>>

mtVars == <<mtBodies, mtTypes, mtLast, mtTicks>>

vwVars == <<vwBodies, vwTypes, vwView, vwSteps>>

vars == <<program, sbVars, dpVars, rnVars, pkVars, gmVars, mtVars, vwVars, rvBody, rvSpins, jsChan>>

-----------------------------------------------------------------------------
(* Floating-point values as the host sees them: a finite number n (in the  *)
(* unit of its channel), NaN, or an infinity of either sign.               *)

Fin(n) == [k |-> "fin", v |-> n]
NaN == [k |-> "nan", v |-> 0]
PosInf == [k |-> "inf", v |-> 1]
NegInf == [k |-> "inf", v |-> -1]

\* math.isfinite
IsFinite(x) == x.k = "fin"

\* Python's x <= y on floats: false when either side is NaN
Leq(x, y) ==
    IF x.k = "nan" \/ y.k = "nan" THEN FALSE
    ELSE IF x.k = "inf" THEN (x.v = -1 \/ (y.k = "inf" /\ y.v = 1))
    ELSE IF y.k = "inf" THEN y.v = 1
    ELSE x.v <= y.v

\* Largest finite acceleration component a guest reports (model bound)
MaxAccelArg == 1
\* Largest value a guest stores in its memory cell (model bound)
MaxMem == 1

NonFinite == {NaN, PosInf, NegInf}
AccelArgs == NonFinite \cup {Fin(n) : n \in 0..MaxAccelArg}
\* Colour components a guest reports: below, at the ends of and above [0, 1]
ColorArgs == {NaN, PosInf, Fin(-1), Fin(0), Fin(1), Fin(2)}

\* The modules a path can hold: whether it compiles/instantiates and which
\* of the two required exports it has.
WasmFiles == [loads : BOOLEAN, hasInit : BOOLEAN, hasUpdate : BOOLEAN]

-----------------------------------------------------------------------------
(* BotSandbox                                                              *)

\* deployer.py:39  the linear memory of a newly made wasmtime.Instance
NewInstanceMemory == 0

\* deployer.py:17  wasmtime.Store() with the default engine: no fuel metering
NewSandboxStore == [consume_fuel |-> FALSE, fuel |-> 0]

\* deployer.py:19,39-41: Module.from_file, instantiate, exports["init"/"update"]
LoadsInSandbox(f) == f.loads /\ f.hasInit /\ f.hasUpdate

\* BotSandbox.__init__ (test.py:25 s = BotSandbox(...))
Construct(f) ==
    /\ program = "sandbox"
    /\ sbPc = "unloaded"
    /\ submitReply = "none"      \* test.py, not dcbot.py, is running
    /\ IF LoadsInSandbox(f)
       THEN /\ sbPc' = "loaded"
            /\ sbStore' = NewSandboxStore
            /\ sbInstance' = 1
            /\ sbMem' = NewInstanceMemory
            /\ sbAction' = <<0, 0>>
            /\ sbColor' = <<1, 1, 1>>
       ELSE /\ sbPc' = "failed"
            /\ UNCHANGED <<sbStore, sbInstance, sbMem, sbAction, sbColor>>
    /\ sbFile' = f
    /\ UNCHANGED <<dpVars, rnVars, pkVars, gmVars, mtVars, vwVars, rvBody, rvSpins, jsChan, program, sbEntry, sbSpin, sbOutcome, sbRet,
                   sbReported, sbLastValid, sbEntryMem, sbExitMem, sbCalls,
                   sbServing, submitReply, sbLastReport>>

\* dcbot.on_message: the submission is verified by constructing a BotSandbox
\* inside try/except; the sandbox object itself is dropped.
OnMessage(f) ==
    /\ program = "sandbox"
    /\ sbPc = "unloaded"
    /\ submitReply = "none"
    /\ submitReply' = IF LoadsInSandbox(f) THEN "success" ELSE "error"
    /\ sbFile' = f
    /\ UNCHANGED <<dpVars, rnVars, pkVars, gmVars, mtVars, vwVars, rvBody, rvSpins, jsChan, program, sbPc, sbEntry, sbStore, sbInstance, sbMem,
                   sbSpin, sbAction, sbColor, sbOutcome, sbRet, sbReported,
                   sbLastValid, sbEntryMem, sbExitMem, sbCalls, sbServing,
                   sbLastReport>>

\* The linear memory a guest export finds when it is entered: that of
\* self._instance, made once in __init__ (deployer.py:39) and never replaced
GuestMemoryAtEntryFresh == NewInstanceMemory

GuestMemoryAtEntry == sbMem

\* Entering a guest export: self.wasm_init(self._store, ...) or
\* self.wasm_update(self._store, ...), on the instance made in __init__.
EnterGuest(entry) ==
    /\ sbPc' = "running"
    /\ sbEntry' = entry
    /\ sbReported' = FALSE
    /\ sbMem' = GuestMemoryAtEntry
    /\ sbEntryMem' = GuestMemoryAtEntry
    /\ sbServing' = sbInstance
    /\ sbRet' = <<0, 0>>
    /\ UNCHANGED <<dpVars, rnVars, pkVars, gmVars, mtVars, vwVars, rvBody, rvSpins, jsChan, program, sbStore, sbInstance, sbSpin, sbAction,
                   sbColor, sbOutcome, sbLastValid, sbExitMem, sbCalls, submitReply,
                   sbFile, sbLastReport>>

\* BotSandbox.init
InitBegin ==
    /\ program = "sandbox"
    /\ sbPc = "loaded"
    /\ EnterGuest("init")

\* BotSandbox.update, up to the call of the guest
UpdateBegin ==
    /\ program = "sandbox"
    /\ sbPc = "ready"
    /\ EnterGuest("update")

\* BotSandbox._py_set_action
PySetAction(x_accel, y_accel) ==
    IF ~IsFinite(x_accel) \/ ~IsFinite(y_accel)
    THEN sbAction
    ELSE <<x_accel.v, y_accel.v>>

\* The guest calls env.send_action
SendAction(x_accel, y_accel) ==
    /\ program = "sandbox"
    /\ sbPc = "running"
    /\ sbAction' = PySetAction(x_accel, y_accel)
    /\ sbReported' = (sbReported \/ (IsFinite(x_accel) /\ IsFinite(y_accel)))
    /\ UNCHANGED <<dpVars, rnVars, pkVars, gmVars, mtVars, vwVars, rvBody, rvSpins, jsChan, program, sbPc, sbEntry, sbStore, sbInstance, sbMem, sbSpin,
                   sbColor, sbOutcome, sbRet, sbLastValid, sbEntryMem, sbExitMem,
                   sbCalls, sbServing, submitReply, sbFile, sbLastReport>>

\* BotSandbox._py_set_color
PySetColorNoRange(r, g, b) ==
    IF ~IsFinite(r) \/ ~IsFinite(g) \/ ~IsFinite(b)
    THEN sbColor
    ELSE <<r.v, g.v, b.v>>

PySetColor(r, g, b) ==
    IF ~IsFinite(r) \/ ~IsFinite(g) \/ ~IsFinite(b)
    THEN sbColor
    ELSE IF ~(/\ Leq(Fin(0), r) /\ Leq(r, Fin(1))
              /\ Leq(Fin(0), g) /\ Leq(g, Fin(1))
              /\ Leq(Fin(0), b) /\ Leq(b, Fin(1)))
    THEN sbColor
    ELSE <<r.v, g.v, b.v>>

\* A report all of whose components are numbers between 0 and 1
ValidColorReport(r, g, b) ==
    \A c \in {r, g, b} : c.k = "fin" /\ c.v \in {0, 1}

\* The guest calls env.set_color
SetColor(r, g, b) ==
    /\ program = "sandbox"
    /\ sbPc = "running"
    /\ sbColor' = PySetColor(r, g, b)
    /\ sbLastValid' = IF ValidColorReport(r, g, b) THEN <<r.v, g.v, b.v>>
                      ELSE sbLastValid
    /\ sbLastReport' = IF ValidColorReport(r, g, b) THEN "valid"
                       ELSE IF \E c \in {r, g, b} : c.k # "fin" THEN "nonfinite"
                       ELSE "range"
    /\ UNCHANGED <<dpVars, rnVars, pkVars, gmVars, mtVars, vwVars, rvBody, rvSpins, jsChan, program, sbPc, sbEntry, sbStore, sbInstance, sbMem, sbSpin,
                   sbAction, sbOutcome, sbRet, sbReported, sbEntryMem, sbExitMem,
                   sbCalls, sbServing, submitReply, sbFile>>

\* The guest writes to its own linear memory
GuestStore(v) ==
    /\ program = "sandbox"
    /\ sbPc = "running"
    /\ sbMem' = v
    /\ sbMem' # sbMem
    /\ UNCHANGED <<dpVars, rnVars, pkVars, gmVars, mtVars, vwVars, rvBody, rvSpins, jsChan, program, sbPc, sbEntry, sbStore, sbInstance, sbSpin, sbAction,
                   sbColor, sbOutcome, sbRet, sbReported, sbLastValid, sbEntryMem,
                   sbExitMem, sbCalls, sbServing, submitReply, sbFile, sbLastReport>>

\* The guest enters a loop it never leaves.  The store meters no fuel
\* (NewSandboxStore) and update sets no deadline, so nothing ends the call.
GuestEnterLoop ==
    /\ program = "sandbox"
    /\ sbPc = "running"
    /\ sbPc' = "looping"
    /\ UNCHANGED <<dpVars, rnVars, pkVars, gmVars, mtVars, vwVars, rvBody, rvSpins, jsChan, program, sbEntry, sbStore, sbInstance, sbMem, sbSpin, sbAction,
                   sbColor, sbOutcome, sbRet, sbReported, sbLastValid, sbEntryMem,
                   sbExitMem, sbCalls, sbServing, submitReply, sbFile, sbLastReport>>

\* One more iteration of that loop.
GuestSpin ==
    /\ program = "sandbox"
    /\ sbPc = "looping"
    /\ sbSpin' = 1 - sbSpin
    /\ UNCHANGED <<dpVars, rnVars, pkVars, gmVars, mtVars, vwVars, rvBody, rvSpins, jsChan, program, sbPc, sbEntry, sbStore, sbInstance, sbMem, sbAction,
                   sbColor, sbOutcome, sbRet, sbReported, sbLastValid, sbEntryMem,
                   sbExitMem, sbCalls, sbServing, submitReply, sbFile, sbLastReport>>

\* The value BotSandbox.update hands back (deployer.py:56)
UpdateResult == sbAction

\* The guest export returns: init returns nothing, update returns self.action
GuestReturn ==
    /\ program = "sandbox"
    /\ sbPc = "running"
    /\ sbPc' = "ready"
    /\ sbOutcome' = "returned"
    /\ sbRet' = IF sbEntry = "update" THEN UpdateResult ELSE sbRet
    /\ sbExitMem' = sbMem
    /\ sbCalls' = TRUE
    /\ UNCHANGED <<dpVars, rnVars, pkVars, gmVars, mtVars, vwVars, rvBody, rvSpins, jsChan, program, sbEntry, sbStore, sbInstance, sbMem, sbSpin, sbAction,
                   sbColor, sbReported, sbLastValid, sbEntryMem, sbServing,
                   submitReply, sbFile, sbLastReport>>

\* The guest traps: wasmtime raises, and neither init nor update catches it,
\* so the exception reaches the caller.  The instance is left as it is.
GuestTrap ==
    /\ program = "sandbox"
    /\ sbPc = "running"
    /\ sbPc' = "ready"
    /\ sbOutcome' = "raised"
    /\ sbExitMem' = sbMem
    /\ sbCalls' = TRUE
    /\ UNCHANGED <<dpVars, rnVars, pkVars, gmVars, mtVars, vwVars, rvBody, rvSpins, jsChan, program, sbEntry, sbStore, sbInstance, sbMem, sbSpin, sbAction,
                   sbColor, sbRet, sbReported, sbLastValid, sbEntryMem, sbServing,
                   submitReply, sbFile, sbLastReport>>

SandboxInit ==
    /\ sbPc = "unloaded"
    /\ sbEntry = "none"
    /\ sbStore = NewSandboxStore
    /\ sbInstance = 0
    /\ sbMem = 0
    /\ sbSpin = 0
    /\ sbAction = <<0, 0>>
    /\ sbColor = <<1, 1, 1>>
    /\ sbOutcome = "none"
    /\ sbRet = <<0, 0>>
    /\ sbReported = FALSE
    /\ sbLastValid = <<1, 1, 1>>
    /\ sbEntryMem = 0
    /\ sbExitMem = 0
    /\ sbCalls = FALSE
    /\ sbServing = 0
    /\ submitReply = "none"
    /\ sbFile = [loads |-> FALSE, hasInit |-> FALSE, hasUpdate |-> FALSE]
    /\ sbLastReport = "none"

SandboxNext ==
    \/ \E f \in WasmFiles : Construct(f)
    \/ \E f \in WasmFiles : OnMessage(f)
    \/ InitBegin
    \/ UpdateBegin
    \/ \E x \in AccelArgs, y \in AccelArgs : SendAction(x, y)
    \/ \E r \in ColorArgs, g \in ColorArgs, b \in ColorArgs : SetColor(r, g, b)
    \/ \E v \in 0..MaxMem : GuestStore(v)
    \/ GuestEnterLoop
    \/ GuestSpin
    \/ GuestReturn
    \/ GuestTrap

-----------------------------------------------------------------------------
(* Python sources as the sanitizer reads them: a script is a sequence of   *)
(* lines, a line a sequence of tokens (words, blanks, punctuation).        *)

IsBlank(t) == t \in {" ", "    "}

RECURSIVE LStrip(_)
LStrip(s) == IF s # <<>> /\ IsBlank(Head(s)) THEN LStrip(Tail(s)) ELSE s

RECURSIVE RStrip(_)
RStrip(s) ==
    IF s # <<>> /\ IsBlank(s[Len(s)]) THEN RStrip(SubSeq(s, 1, Len(s) - 1)) ELSE s

\* str.strip
Strip(s) == RStrip(LStrip(s))

\* str.split(sep) for a one-token separator: the pieces between separators
RECURSIVE SplitOn(_, _)
SplitOn(s, sep) ==
    IF \A i \in 1..Len(s) : s[i] # sep
    THEN <<s>>
    ELSE LET i == CHOOSE j \in 1..Len(s) :
                      s[j] = sep /\ \A h \in 1..(j - 1) : s[h] # sep
         IN <<SubSeq(s, 1, i - 1)>> \o SplitOn(SubSeq(s, i + 1, Len(s)), sep)

\* str.split(): the runs of non-blank tokens
RECURSIVE Words(_)
Words(s) ==
    LET t == LStrip(s) IN
    IF t = <<>> THEN <<>>
    ELSE IF \A i \in 1..Len(t) : ~IsBlank(t[i]) THEN <<t>>
    ELSE LET i == CHOOSE j \in 1..Len(t) :
                      IsBlank(t[j]) /\ \A h \in 1..(j - 1) : ~IsBlank(t[h])
         IN <<SubSeq(t, 1, i - 1)>> \o Words(SubSeq(t, i, Len(t)))

\* CPythonWasmDeployer.BLOCKED_IMPORTS
BLOCKED_IMPORTS ==
    {"os", "sys", "subprocess", "socket", "urllib", "http", "ftplib", "smtplib",
     "pickle", "marshal", "shelve", "dbm", "sqlite3", "ctypes", "multiprocessing",
     "threading", "asyncio", "concurrent", "__import__", "exec", "eval", "open",
     "file", "input", "raw_input"}

\* line.startswith('import ')
StartsWithImport(s) == Len(s) >= 2 /\ s[1] = "import" /\ s[2] = " "

\* 'from ' in line
HasFrom(s) == \E i \in 1..(Len(s) - 1) : s[i] = "from" /\ s[i + 1] \in {" ", "    "}

\* 'import' in line
HasImport(s) == \E i \in 1..Len(s) : s[i] \in {"import", "__import__("}

\* The module names _check_import_line extracts from a stripped line
ImportedModules(s) ==
    IF StartsWithImport(s) THEN SplitOn(SubSeq(s, 3, Len(s)), ",")
    ELSE IF HasFrom(s) /\ HasImport(s)
    THEN (IF Len(Words(s)) >= 2 THEN <<Words(s)[2]>> ELSE <<>>)
    ELSE <<>>

\* module.strip().split('.')[0]
BaseModule(m) == SplitOn(Strip(m), ".")[1]

\* CPythonWasmDeployer._check_import_line raises ValueError
CheckImportLineRaises(s) ==
    \E i \in 1..Len(ImportedModules(s)) :
        LET module == BaseModule(ImportedModules(s)[i])
        IN Len(module) = 1 /\ module[1] \in BLOCKED_IMPORTS

\* any(call in line for call in dangerous_calls)
HasDangerousCall(line) ==
    \E i \in 1..Len(line) :
        line[i] \in {"exec(", "eval(", "__import__(", "open(", "file("}

\* One line of CPythonWasmDeployer._sanitize_script raises ValueError
LineRejected(line) ==
    LET stripped_line == Strip(line) IN
    \/ /\ (StartsWithImport(stripped_line)
             \/ (HasFrom(stripped_line) /\ HasImport(stripped_line)))
       /\ CheckImportLineRaises(stripped_line)
    \/ HasDangerousCall(line)

\* CPythonWasmDeployer._sanitize_script raises ValueError
SanitizeRaises(script) == \E i \in 1..Len(script) : LineRejected(script[i])

\* CPythonWasmDeployer.prepare_module raises: it re-raises what
\* _sanitize_script raised; the mock compilation after it cannot fail.
PrepareModuleRaises(script) == SanitizeRaises(script)

\* Lines and scripts submitted in the model, as the tokens the sanitizer's
\* string tests tell apart
Scripts ==
    LET L_pass == <<"pass">>
        L_import_json == <<"import", " ", "json">>
        L_import_os == <<"import", " ", "os">>
        L_from_os == <<"    ", "from", " ", "os", ".", "path", " ", "import", " ", "join">>
        L_import_json_os == <<"import", " ", "json", ",", " ", "os">>
        L_eval == <<"    ", "x", "=", "eval(", "code", ")">>
        L_import_os_as == <<"import", " ", "os", " ", "as", " ", "o">>
        L_then_import_os == <<"x", "=", "1", ";", " ", "import", " ", "os">>
        L_eval_spaced == <<"x", "=", "eval", " ", "(", "code", ")">>
    IN {<<L_import_json, L_pass>>, <<L_pass>>, <<L_import_os, L_pass>>,
        <<L_pass, L_from_os>>, <<L_import_json_os>>, <<L_import_json, L_eval>>,
        <<L_import_os_as>>, <<L_pass, L_then_import_os>>, <<L_eval_spaced>>}

NoScript == <<>>
BotIds == {"bot_a", "bot_b"}

-----------------------------------------------------------------------------
(* WasmDeployer / CPythonWasmDeployer                                      *)

\* ExecutionStatus (wasm_deployer.py:29-35)
ExecutionStatus == {"pending", "running", "success", "error", "timeout"}

\* Action (sim.py:28-32)
Actions == {"FORWARD", "LEFT", "RIGHT", "SHOOT"}

\* Fuel units given to a store that meters fuel (model bound)
MaxFuel == 2

\* self.max_fuel: a number of units, or None for unlimited
Limited(n) == [limited |-> TRUE, units |-> n]
Unlimited == [limited |-> FALSE, units |-> 0]

ExecutionResult(status, cause, actions) ==
    [status |-> status, cause |-> cause, actions |-> actions]

NoResult == ExecutionResult("pending", "none", {})

\* CPythonWasmDeployer._execute_with_timeout: no guest code is called, the
\* output is computed on the host from time_step.
CPythonExecuteWithTimeout(time_step) ==
    ExecutionResult("success", "ok",
        {"FORWARD"}
        \cup (IF time_step % 100 < 50 THEN {"LEFT"} ELSE {"RIGHT"})
        \cup (IF time_step % 30 = 0 THEN {"SHOOT"} ELSE {}))

\* wasm_deployer.py:136-138: the store of one execution and its fuel
NewExecutionStore(max_fuel, left) == IF max_fuel.limited THEN max_fuel ELSE Unlimited

\* What the except clauses of WasmDeployer.execute (wasm_deployer.py:161-178)
\* do with an exception raised in its try block: the first clause names
\* json.JSONEncodeError, which the json module does not have, so matching the
\* exception raises AttributeError and execute raises to its caller.
ExecuteHandlers(cause) == [outcome |-> "raised", result |-> NoResult]

\* WasmDeployer.execute up to the call of the entry point.  kind is the
\* _execute_with_timeout in use: "base" (wasm_deployer.py:180) or "cpython".
ExecuteStart(kind, wasm, inputOk, time_step) ==
    IF ~inputOk THEN ExecuteHandlers("input")
    ELSE IF ~wasm.valid THEN ExecuteHandlers("load")
    ELSE IF kind = "cpython"
    THEN [outcome |-> "returned", result |-> CPythonExecuteWithTimeout(time_step)]
    ELSE IF ~wasm.hasEntry
    THEN [outcome |-> "returned", result |-> ExecutionResult("error", "no_entry", {})]
    ELSE [outcome |-> "running", result |-> NoResult]

\* WasmDeployer.execute is called on a subclass that keeps the base
\* _execute_with_timeout
ExecuteBegin(wasm, inputOk) ==
    /\ program = "deployer"
    /\ dpPc = "idle"
    /\ LET st == ExecuteStart("base", wasm, inputOk, 0) IN
       /\ dpPc' = IF st.outcome = "running" THEN "running" ELSE "idle"
       /\ dpOutcome' = IF st.outcome = "running" THEN "none" ELSE st.outcome
       /\ dpResult' = st.result
       /\ IF inputOk /\ wasm.valid
          THEN /\ dpFuel' = NewExecutionStore(dpMaxFuel, dpFuel)
               /\ dpMem' = NewInstanceMemory
               /\ dpEntryMem' = 0
          ELSE UNCHANGED <<dpFuel, dpMem, dpEntryMem>>
    /\ UNCHANGED <<pkVars, gmVars, mtVars, vwVars, rvBody, rvSpins, jsChan, program, sbVars, dpMaxFuel, dpSpin, dpExitMem, dpCalls, rnVars>>

HasFuel == ~dpFuel.limited \/ dpFuel.units > 0
Burn(f) == IF f.limited THEN [f EXCEPT !.units = @ - 1] ELSE f

\* The guest writes to its linear memory
DpGuestStore(v) ==
    /\ program = "deployer"
    /\ dpPc = "running"
    /\ HasFuel
    /\ dpMem' = v
    /\ dpFuel' = Burn(dpFuel)
    /\ UNCHANGED <<pkVars, gmVars, mtVars, vwVars, rvBody, rvSpins, jsChan, program, sbVars, dpMaxFuel, dpPc, dpSpin, dpOutcome, dpResult,
                   dpEntryMem, dpExitMem, dpCalls, rnVars>>

\* The guest enters a loop it never leaves
DpGuestEnterLoop ==
    /\ program = "deployer"
    /\ dpPc = "running"
    /\ dpPc' = "looping"
    /\ UNCHANGED <<pkVars, gmVars, mtVars, vwVars, rvBody, rvSpins, jsChan, program, sbVars, dpMaxFuel, dpFuel, dpMem, dpSpin, dpOutcome,
                   dpResult, dpEntryMem, dpExitMem, dpCalls, rnVars>>

\* One more iteration of that loop
DpGuestSpin ==
    /\ program = "deployer"
    /\ dpPc = "looping"
    /\ HasFuel
    /\ dpSpin' = 1 - dpSpin
    /\ dpFuel' = Burn(dpFuel)
    /\ UNCHANGED <<pkVars, gmVars, mtVars, vwVars, rvBody, rvSpins, jsChan, program, sbVars, dpMaxFuel, dpPc, dpMem, dpOutcome, dpResult,
                   dpEntryMem, dpExitMem, dpCalls, rnVars>>

\* execute returns `result` (wasm_deployer.py:152-159)
Finish(result) ==
    /\ dpPc' = "idle"
    /\ dpOutcome' = "returned"
    /\ dpResult' = result
    /\ dpExitMem' = dpMem
    /\ dpCalls' = TRUE
    /\ UNCHANGED <<pkVars, gmVars, mtVars, vwVars, rvBody, rvSpins, jsChan, program, sbVars, dpMaxFuel, dpFuel, dpMem, dpSpin, dpEntryMem,
                   rnVars>>

\* wasm_deployer.py:228-232: the store runs out of fuel
DpFuelExhausted ==
    /\ program = "deployer"
    /\ dpPc \in {"running", "looping"}
    /\ ~HasFuel
    /\ Finish(ExecutionResult("timeout", "fuel", {}))

\* wasm_deployer.py:214-221: the entry point returns
DpGuestReturn ==
    /\ program = "deployer"
    /\ dpPc = "running"
    /\ Finish(ExecutionResult("success", "ok", {}))

\* wasm_deployer.py:233-237: the guest traps
DpGuestTrap ==
    /\ program = "deployer"
    /\ dpPc = "running"
    /\ Finish(ExecutionResult("error", "trap", {}))

-----------------------------------------------------------------------------
(* WasmBotRunner (src/standalone.py)                                       *)

\* WasmBotRunner.register_bot: the new value of self.bots
RegisterBotsEager(bot_id, script) == [bots EXCEPT ![bot_id] = script]

RegisterBots(bot_id, script) ==
    IF PrepareModuleRaises(script) THEN bots ELSE [bots EXCEPT ![bot_id] = script]

\* WasmBotRunner.register_bot
RegisterBot(bot_id, script) ==
    /\ program = "runner"
    /\ bots' = RegisterBots(bot_id, script)
    /\ regOk' = ~PrepareModuleRaises(script)
    /\ lastOp' = "register"
    /\ lastBot' = bot_id
    /\ lastScript' = script
    /\ botsBefore' = bots
    /\ UNCHANGED <<pkVars, gmVars, mtVars, vwVars, rvBody, rvSpins, jsChan, program, sbVars, dpVars, exActions, exRan, exStatus, exFresh>>

\* CPythonWasmDeployer.execute_python_script: prepare_module, then execute;
\* whatever either raises becomes an ERROR result
ExecutePythonScript(script, inputOk, time_step) ==
    IF PrepareModuleRaises(script)
    THEN ExecutionResult("error", "prepare", {})
    ELSE LET st == ExecuteStart("cpython", [valid |-> TRUE, hasEntry |-> TRUE],
                                inputOk, time_step)
         IN IF st.outcome = "raised"
            THEN ExecutionResult("error", "raised", {})
            ELSE st.result

\* Whether execute_python_script gets as far as wasm_deployer.py:136-149,
\* where execute makes the store and the instance of this one execution
ExecuteMakesInstance(script, inputOk) == ~PrepareModuleRaises(script) /\ inputOk

\* WasmBotRunner.execute_bot: whether the deployer is called at all
ExecuteBotRuns(bot_id) == bots[bot_id] # NoScript

\* WasmBotRunner.execute_bot: the action set it returns
ExecuteBotActions(bot_id, inputOk, time_step) ==
    IF ~ExecuteBotRuns(bot_id) THEN {}
    ELSE LET result == ExecutePythonScript(bots[bot_id], inputOk, time_step) IN
         IF result.status # "success" THEN {}
         ELSE result.actions \cap Actions

\* WasmBotRunner.execute_bot
ExecuteBot(bot_id, inputOk, time_step) ==
    /\ program = "runner"
    /\ exRan' = ExecuteBotRuns(bot_id)
    /\ exActions' = ExecuteBotActions(bot_id, inputOk, time_step)
    /\ exStatus' = IF ExecuteBotRuns(bot_id)
                   THEN ExecutePythonScript(bots[bot_id], inputOk, time_step).status
                   ELSE "pending"
    /\ lastOp' = "execute"
    /\ lastBot' = bot_id
    /\ exFresh' = (ExecuteBotRuns(bot_id) /\ ExecuteMakesInstance(bots[bot_id], inputOk))
    /\ botsBefore' = bots
    /\ UNCHANGED <<pkVars, gmVars, mtVars, vwVars, rvBody, rvSpins, jsChan, program, sbVars, dpVars, bots, regOk, lastScript>>

DeployerInit ==
    /\ dpMaxFuel \in (IF program = "deployer" THEN {Limited(MaxFuel), Unlimited}
                      ELSE {Limited(MaxFuel)})
    /\ dpPc = "idle"
    /\ dpFuel = dpMaxFuel
    /\ dpMem = 0
    /\ dpSpin = 0
    /\ dpOutcome = "none"
    /\ dpResult = NoResult
    /\ dpEntryMem = 0
    /\ dpExitMem = 0
    /\ dpCalls = FALSE

RunnerInit ==
    /\ bots = [b \in BotIds |-> NoScript]
    /\ regOk = FALSE
    /\ lastOp = "none"
    /\ lastBot = "bot_a"
    /\ lastScript = NoScript
    /\ exActions = {}
    /\ exRan = FALSE
    /\ exStatus = "pending"
    /\ exFresh = FALSE
    /\ botsBefore = [b \in BotIds |-> NoScript]

DeployerNext ==
    \/ \E w \in [valid : BOOLEAN, hasEntry : BOOLEAN], ok \in BOOLEAN : ExecuteBegin(w, ok)
    \/ \E v \in 0..MaxMem : DpGuestStore(v)
    \/ DpGuestEnterLoop
    \/ DpGuestSpin
    \/ DpFuelExhausted
    \/ DpGuestReturn
    \/ DpGuestTrap

RunnerNext ==
    \/ \E b \in BotIds, s \in Scripts : RegisterBot(b, s)
    \/ \E b \in BotIds, ok \in BOOLEAN, t \in {0, 1, 50, 60} : ExecuteBot(b, ok, t)

-----------------------------------------------------------------------------
(* Complex numbers as pairs of integers, in fixed-point units.             *)

VAdd(a, b) == <<a[1] + b[1], a[2] + b[2]>>
VSub(a, b) == <<a[1] - b[1], a[2] - b[2]>>
VScale(k, a) == <<k * a[1], k * a[2]>>
Dot(a, b) == a[1] * b[1] + a[2] * b[2]
Cross(a, b) == a[1] * b[2] - a[2] * b[1]
NormSq(a) == Dot(a, a)

\* Division rounded toward zero: the quotient of -x is minus that of x
SDiv(x, y) == IF x >= 0 THEN x \div y ELSE -((-x) \div y)

\* The integer square root
Isqrt(n) == CHOOSE r \in 0..n : r * r <= n /\ n < (r + 1) * (r + 1)

\* abs() of a complex number
CAbs(a) == Isqrt(NormSq(a))

\* itertools.combinations of n bodies or pucks, two at a time, in its order
Pairs(n) ==
    LET RECURSIVE From(_, _)
        From(i, j) ==
            IF i >= n THEN <<>>
            ELSE IF j > n THEN From(i + 1, i + 2)
            ELSE <<<<i, j>>>> \o From(i, j + 1)
    IN From(1, 2)

-----------------------------------------------------------------------------
(* Environment / Puck (src/depl/game/puck.py); one unit is 0.1            *)

\* Config.max_puck_accel = 0.5
MaxPuckAccel == 5

\* Largest multiple of a direction a reported acceleration is (model bound)
MaxActionMag == 3
\* Number of apply_action calls in a behaviour (model bound)
MaxApply == 2

\* The reported accelerations: along directions of length 2, 3, 5 and 5
PuckActions ==
    LET PuckDirs == {<<2, 0>>, <<0, -3>>, <<3, 4>>, <<-4, 3>>}
    IN {<<0, 0>>} \cup {VScale(k, d) : k \in 1..MaxActionMag, d \in PuckDirs}
PuckDts == {1, 2}

\* Environment.apply_action: the acceleration that is applied
ClampActionNoLimit(action) == action

ClampAction(action) ==
    IF CAbs(action) > MaxPuckAccel
    THEN <<SDiv(action[1] * MaxPuckAccel, CAbs(action)),
           SDiv(action[2] * MaxPuckAccel, CAbs(action))>>
    ELSE action

\* Environment.apply_action
ApplyAction(dt, p, action) ==
    /\ program = "puck"
    /\ pkApplied < MaxApply
    /\ pucks' = [pucks EXCEPT ![p].vel = VAdd(@, VScale(dt, ClampAction(action)))]
    /\ pkLast' = [puck |-> p, dt |-> dt, action |-> action,
                  velBefore |-> pucks[p].vel]
    /\ pkApplied' = pkApplied + 1
    /\ UNCHANGED <<program, sbVars, dpVars, rnVars, gmVars, mtVars, vwVars, rvBody, rvSpins, jsChan,
                   pkUpdate, pkUpdates, pkConfig>>

\* Config.puck_radius = 0.1
PuckRadius == 1

\* Environment.update calls in a behaviour (model bound)
MaxUpdates == 1

GetVelocityAfterCollisionSwap(self, other) == other.vel

GetVelocityAfterCollisionKeep(self, other) == self.vel

\* Puck.get_velocity_after_collision.  proj * n with the unit normal
\* n / dist is (v_rel . n) n / |n|^2 in terms of the offset n; dist < EPS is
\* dist = 0 on the grid, and proj has the sign of v_rel . n.
GetVelocityAfterCollision(self, other) ==
    LET n == VSub(self.pos, other.pos)
        v_rel == VSub(self.vel, other.vel)
        proj == Dot(v_rel, n)
    IN IF NormSq(n) = 0 THEN self.vel
       ELSE IF proj >= 0 THEN self.vel
       ELSE VSub(self.vel, <<SDiv(proj * n[1], NormSq(n)), SDiv(proj * n[2], NormSq(n))>>)

\* Environment.get_collisions: the pairs of itertools.combinations that
\* are at most two radii apart, in its order
GetCollisions(players) ==
    SelectSeq(Pairs(Len(players)),
              LAMBDA p : NormSq(VSub(players[p[2]].pos, players[p[1]].pos))
                             <= (PuckRadius * 2) * (PuckRadius * 2))

\* puck.py:86-90: the collision phase, pair after pair; log keeps what
\* every pair's resolution found and assigned
ResolveCollisions(players) ==
    LET RECURSIVE Resolve(_, _, _)
        Resolve(ps, pairs, log) ==
            IF pairs = <<>> THEN [players |-> ps, log |-> log]
            ELSE LET a == Head(pairs)[1]
                     b == Head(pairs)[2]
                     new_a_vel == GetVelocityAfterCollision(ps[a], ps[b])
                     new_b_vel == GetVelocityAfterCollision(ps[b], ps[a])
                 IN Resolve([ps EXCEPT ![a].vel = new_a_vel, ![b].vel = new_b_vel],
                            Tail(pairs),
                            Append(log, [a |-> a, b |-> b,
                                         a_vel |-> ps[a].vel, b_vel |-> ps[b].vel,
                                         new_a_vel |-> new_a_vel, new_b_vel |-> new_b_vel]))
    IN Resolve(players, GetCollisions(players), <<>>)

\* Environment.update: collisions, then pos += vel * dt and
\* vel *= config.damping ** dt, then apply_action for every entry of the
\* action map (its entries are for different pucks).  config is the
\* module's Config() of puck.py:106, damping 0.8 = 4/5, not self.config.
Update(dt, actions) ==
    /\ program = "env"
    /\ pkUpdates < MaxUpdates
    /\ DOMAIN actions \subseteq 1..Len(pucks)
    /\ LET resolved == ResolveCollisions(pucks).players
           Damped(v) == IF dt = 1 THEN SDiv(v * 4, 5) ELSE SDiv(v * 16, 25)
           moved == [i \in 1..Len(pucks) |->
                        [pos |-> VAdd(resolved[i].pos, VScale(dt, resolved[i].vel)),
                         vel |-> <<Damped(resolved[i].vel[1]), Damped(resolved[i].vel[2])>>]]
       IN /\ pucks' = [i \in 1..Len(pucks) |->
                          IF i \in DOMAIN actions
                          THEN [moved[i] EXCEPT
                                   !.vel = VAdd(@, VScale(dt, ClampAction(actions[i])))]
                          ELSE moved[i]]
          /\ pkUpdate' = [before |-> pucks, resolved |-> resolved, dt |-> dt,
                          pairs |-> GetCollisions(pucks),
                          log |-> ResolveCollisions(pucks).log, actions |-> actions]
    /\ pkUpdates' = pkUpdates + 1
    /\ UNCHANGED <<program, sbVars, dpVars, rnVars, gmVars, mtVars, vwVars, rvBody, rvSpins, jsChan,
                   pkLast, pkApplied, pkConfig>>

\* The pucks update is called with: two pucks in contact along an axis,
\* overlapping, at one point or apart, and the three pucks of a row in
\* contact (puck.py:111-114 has three pucks), with some velocities
EnvWorlds ==
    {<<[pos |-> <<0, 0>>, vel |-> va], [pos |-> pb, vel |-> vb]>> :
        va \in {<<0, 0>>, <<1, 0>>},
        pb \in {<<2, 0>>, <<0, 2>>, <<1, 0>>, <<0, 0>>, <<4, 0>>},
        vb \in {<<0, 0>>, <<-1, 0>>, <<1, 0>>, <<0, -2>>, <<-1, 1>>}}
    \cup
    {<<[pos |-> <<0, 0>>, vel |-> <<0, 0>>], [pos |-> <<2, 0>>, vel |-> vb],
       [pos |-> <<-2, 0>>, vel |-> vc]>> :
        vb \in {<<0, 0>>, <<-1, 0>>}, vc \in {<<0, 0>>, <<1, 0>>}}

PuckInit ==
    /\ LET \* test.py:21-23: the two pucks of a match
           Match2 == <<[pos |-> <<-3, 0>>, vel |-> <<0, 0>>],
                       [pos |-> <<3, 0>>, vel |-> <<0, 0>>]>>
       IN pucks \in (IF program = "env" THEN EnvWorlds ELSE {Match2})
    /\ pkLast = [puck |-> 1, dt |-> 1, action |-> <<0, 0>>, velBefore |-> <<0, 0>>]
    /\ pkApplied = 0
    /\ pkUpdate = [before |-> pucks, resolved |-> pucks, dt |-> 1, pairs |-> <<>>,
                   log |-> <<>>, actions |-> <<>>]
    /\ pkUpdates = 0
    /\ pkConfig \in (IF program = "env"
                     THEN {[damping |-> [num |-> 4, den |-> 5]],
                           [damping |-> [num |-> 1, den |-> 1]]}
                     ELSE {[damping |-> [num |-> 4, den |-> 5]]})

PuckNext ==
    \E dt \in PuckDts, p \in 1..Len(pucks), a \in PuckActions : ApplyAction(dt, p, a)

\* test.py:63-76: every tick calls update with the action map of the tick
EnvNext ==
    \E dt \in PuckDts,
       actions \in {<<>>, <<<<2, 0>>>>, <<<<6, 8>>, <<0, -3>>>>} : Update(dt, actions)

-----------------------------------------------------------------------------
(* Game / PhysicsSystem / Ship (src/lib/sim.py)                            *)
(* Positions and forces are integers.  An orientation, a unit complex      *)
(* number, is the index k of the angle k * 22.5 degrees; multiplying unit  *)
(* numbers adds indices, conjugating negates one, and the components of    *)
(* the unit number are read from CosTable, in hundredths.                  *)

CosTable == <<100, 92, 71, 38, 0, -38, -71, -92, -100, -92, -71, -38, 0, 38, 71, 92>>
RotSteps == Len(CosTable)
Cos(k) == CosTable[(k % RotSteps) + 1]
Sin(k) == CosTable[((k - (RotSteps \div 4)) % RotSteps) + 1]

\* SimConfig in the model's units
GravityConst == 100     \* gravity_const
ShipThrustForce == 1    \* ship_thrust_force, per hundredth of the direction
ShipTorque == 2         \* ship_torque: two angle steps per tick^2 at inertia 1

\* Ticks in a behaviour (model bound)
MaxTicks == 2

GameDts == {1, 2}

\* The phase of a unit number as a signed index in (-RotSteps/2, RotSteps/2]
Phase(k) ==
    LET m == k % RotSteps
    IN IF m > RotSteps \div 2 THEN m - RotSteps ELSE m

ClearForcesKeepTorque(body) == [body EXCEPT !.force = <<0, 0>>]

\* PhysicsSystem.clear_forces
ClearForces(body) == [body EXCEPT !.force = <<0, 0>>, !.torque = 0]

\* PhysicsSystem._positional_verlet
PositionalVerletNoInertia(body, dt) ==
    LET accel == <<SDiv(body.force[1], body.mass), SDiv(body.force[2], body.mass)>>
    IN VAdd(body.pos, VScale(dt * dt, accel))

PositionalVerlet(body, dt) ==
    LET accel == <<SDiv(body.force[1], body.mass), SDiv(body.force[2], body.mass)>>
    IN VAdd(VSub(VScale(2, body.pos), body.old_pos), VScale(dt * dt, accel))

\* PhysicsSystem._rotational_verlet: rot^2 * conj(old_rot) * rect(1, a dt^2),
\* renormalized (a unit number already has magnitude 1)
RotationalVerlet(body, dt) ==
    (2 * body.rot - body.old_rot + SDiv(body.torque * dt * dt, body.inertia))
        % RotSteps

\* PhysicsSystem.integrate_forces
IntegrateForces(body, dt) ==
    ClearForces([body EXCEPT !.old_pos = body.pos,
                             !.pos = PositionalVerlet(body, dt),
                             !.old_rot = body.rot,
                             !.rot = RotationalVerlet(body, dt)])

ApplyThrustForceAlongRot(ship, force) ==
    [ship EXCEPT !.force = VAdd(@, <<force * Cos(ship.rot), force * Sin(ship.rot)>>)]

\* Ship.apply_thrust_force: along old_rot * sqrt(rot * conj(old_rot))
ApplyThrustForce(ship, force) ==
    LET rot_delta == Phase(ship.rot - ship.old_rot)
        force_dir == ship.old_rot + SDiv(rot_delta, 2)
    IN [ship EXCEPT !.force = VAdd(@, <<force * Cos(force_dir),
                                        force * Sin(force_dir)>>)]

\* Ship.apply_rotational_force
ApplyRotationalForceSet(ship, torque) == [ship EXCEPT !.torque = torque]

ApplyRotationalForce(ship, torque) == [ship EXCEPT !.torque = @ + torque]

\* Game._process_inputs, one action of a ship's action set
ProcessAction(ship, action) ==
    CASE action = "FORWARD" -> ApplyThrustForce(ship, ShipThrustForce)
      [] action = "LEFT" -> ApplyRotationalForce(ship, ShipTorque)
      [] action = "RIGHT" -> ApplyRotationalForce(ship, -ShipTorque)
      [] OTHER -> ship

\* Game._process_inputs for one ship: order is the order in which the for
\* loop meets the members of the action set
RECURSIVE ProcessShip(_, _)
ProcessShip(ship, order) ==
    IF order = <<>> THEN ship
    ELSE ProcessShip(ProcessAction(ship, Head(order)), Tail(order))

\* Game._process_inputs: orders maps the index of each ship of the action
\* map to the iteration order of its action set
ProcessInputs(bodies, orders) ==
    [i \in 1..Len(bodies) |->
        IF i \in DOMAIN orders THEN ProcessShip(bodies[i], orders[i]) ELSE bodies[i]]

\* PhysicsSystem.compute_attraction_force_magnitude times the offset b - a:
\* G m_a m_b (b - a) / max(|b - a|, EPS)^2.  Bodies at one point are below
\* EPS apart and their offset is 0, so the product is 0.
Attraction(a, b) ==
    LET diff == VSub(b.pos, a.pos)
        k == GravityConst * a.mass * b.mass
    IN IF NormSq(diff) = 0 THEN <<0, 0>>
       ELSE <<SDiv(k * diff[1], NormSq(diff)), SDiv(k * diff[2], NormSq(diff))>>

\* sim.py:161-163: the forces one pair adds, to a and to b
PairForcesSameSign(a, b) == [onA |-> Attraction(a, b), onB |-> Attraction(a, b)]

PairForces(a, b) == [onA |-> Attraction(a, b), onB |-> Attraction(b, a)]

\* Game._process_gravity
RECURSIVE GravityOver(_, _)
GravityOver(bodies, pairs) ==
    IF pairs = <<>> THEN bodies
    ELSE LET a == Head(pairs)[1]
             b == Head(pairs)[2]
             f == PairForces(bodies[a], bodies[b])
             withA == [bodies EXCEPT ![a].force = VAdd(@, f.onA)]
             withB == [withA EXCEPT ![b].force = VAdd(@, f.onB)]
         IN GravityOver(withB, Tail(pairs))

ProcessGravity(bodies) == GravityOver(bodies, Pairs(Len(bodies)))

\* Game.apply_all
ApplyAll(bodies, dt) == [i \in 1..Len(bodies) |-> IntegrateForces(bodies[i], dt)]

\* Game.step
GameStep(bodies, orders, dt) == ApplyAll(ProcessGravity(ProcessInputs(bodies, orders)), dt)

\* The orders in which a for loop can meet the members of a set
RECURSIVE Orders(_)
Orders(S) ==
    IF S = {} THEN {<<>>}
    ELSE UNION {{<<x>> \o o : o \in Orders(S \ {x})} : x \in S}

\* The members of a set in the order in which the Action enum defines them
EnumOrder(S) ==
    LET ActionOrder == <<"FORWARD", "LEFT", "RIGHT", "SHOOT">>
    IN SelectSeq(ActionOrder, LAMBDA a : a \in S)

\* Game.step on the game and, with the same action map and dt, on the replay.
\* The game meets the members of the ship's action set in the enum's order,
\* the replay in any order.
Step(action_set, replayOrder, dt) ==
    /\ program = "game"
    /\ gmTicks < MaxTicks
    /\ gmBodies' = GameStep(gmBodies, (1 :> EnumOrder(action_set)), dt)
    /\ gmReplay' = GameStep(gmReplay, (1 :> replayOrder), dt)
    /\ gmLast' = [actions |-> action_set,
                  differ |-> (replayOrder # EnumOrder(action_set))]
    /\ gmTicks' = gmTicks + 1
    /\ UNCHANGED <<program, sbVars, dpVars, rnVars, pkVars, mtVars, vwVars, rvBody, rvSpins, jsChan>>

Body(pos, mass, radius) ==
    [old_pos |-> pos, pos |-> pos, force |-> <<0, 0>>, old_rot |-> 0, rot |-> 0,
     torque |-> 0, mass |-> mass, inertia |-> 1, radius |-> radius]

\* standalone.py:202-211 puts one ship into the game; a second body gives
\* the gravity phase a pair
GameInit ==
    /\ gmBodies = <<Body(<<30, 30>>, 1, 2), Body(<<50, 40>>, 2, 5)>>
    /\ gmReplay = gmBodies
    /\ gmLast = [actions |-> {}, differ |-> FALSE]
    /\ gmTicks = 0

GameNext ==
    \E action_set \in SUBSET Actions, dt \in GameDts :
        \E replayOrder \in Orders(action_set) : Step(action_set, replayOrder, dt)

-----------------------------------------------------------------------------
(* One Game observed tick by tick, as standalone.py's loop runs it         *)

\* Ticks of the observed game (model bound)
MaxMatchTicks == 2

\* The action sets a bot hands in; SHOOT does nothing, alone or with others
MatchActionSets == (SUBSET {"FORWARD", "LEFT", "RIGHT"}) \cup {{"SHOOT"}}

\* The bodies a game is set up with: the ship of standalone.py:202-211 alone,
\* with a planet, and with a planet and a second ship
Worlds ==
    {[bodies |-> <<Body(<<30, 30>>, 1, 2)>>, types |-> <<"Ship">>],
     [bodies |-> <<Body(<<30, 30>>, 1, 2), Body(<<50, 40>>, 2, 5)>>,
      types |-> <<"Ship", "Body">>],
     [bodies |-> <<Body(<<30, 30>>, 1, 2), Body(<<30, 30>>, 2, 5)>>,
      types |-> <<"Ship", "Body">>],
     [bodies |-> <<Body(<<30, 30>>, 1, 2), Body(<<50, 40>>, 2, 5),
                   Body(<<30, 40>>, 1, 2)>>,
      types |-> <<"Ship", "Body", "Ship">>]}

\* Game.step, with what each of its phases left
StepMatch(action_set, dt) ==
    /\ program = "match"
    /\ mtTicks < MaxMatchTicks
    /\ LET orders == (1 :> EnumOrder(action_set))
           input == ProcessInputs(mtBodies, orders)
           loaded == ProcessGravity(input)
       IN /\ mtBodies' = GameStep(mtBodies, orders, dt)
          /\ mtLast' = [prev |-> mtBodies, input |-> input, loaded |-> loaded,
                        actions |-> action_set, dt |-> dt]
    /\ mtTicks' = mtTicks + 1
    /\ UNCHANGED <<program, sbVars, dpVars, rnVars, pkVars, gmVars, mtTypes, vwVars, rvBody, rvSpins, jsChan>>

\* The world of standalone.py
ShipAlone == [bodies |-> <<Body(<<30, 30>>, 1, 2)>>, types |-> <<"Ship">>]

MatchInit ==
    /\ \E w \in (IF program = "match" THEN Worlds ELSE {ShipAlone}) :
           mtBodies = w.bodies /\ mtTypes = w.types
    /\ mtLast = [prev |-> mtBodies, input |-> mtBodies, loaded |-> mtBodies,
                 actions |-> {}, dt |-> 1]
    /\ mtTicks = 0

MatchNext ==
    \E action_set \in MatchActionSets, dt \in GameDts : StepMatch(action_set, dt)

-----------------------------------------------------------------------------
-----------------------------------------------------------------------------
(* Game.generate_relative_view (src/lib/sim.py, src/depl/game/util.py);     *)
(* one unit of length is 0.01, a heading is <<Cos, Sin>> in hundredths.     *)

\* SimConfig.world_min, SimConfig.world_max
WorldMin == <<0, 0>>
WorldMax == <<100, 100>>

\* SimConfig.ship_vision_reach = 0.5
VisionReach == 50
\* SimConfig.ship_vision_cone = radians(30), as 1 / tan(cone)^2
ConeCotSq == 3

\* Game.step calls in a behaviour (model bound)
MaxViewSteps == 1

\* Body.relative_angle_to: the quotient diff / self.rot whose phase it
\* returns (self.rot has length 1, so this is diff times its conjugate)
RelativeTo(self, other) ==
    LET diff == VSub(other.pos, self.pos)
        rot == <<Cos(self.rot), Sin(self.rot)>>
    IN <<Dot(diff, rot), Cross(rot, diff)>>

\* cmath.phase(v) > ship_vision_cone.  With an imaginary part of zero the
\* phase depends on the signs of the zeros: pi for a negative real part and
\* +0.0j, -pi for -0.0j (as in (0.2+0j) / (-1+0j)), and for 0/rot 0 or pi
\* as the real part is +0.0 or -0.0.  Integers do not tell the zeros apart,
\* so minusZero says which components of the quotient are -0.0.
AboveCone(v, minusZero) ==
    \/ v[2] > 0 /\ (v[1] <= 0 \/ ConeCotSq * v[2] * v[2] > v[1] * v[1])
    \/ v[2] = 0 /\ ~minusZero.im /\ (v[1] < 0 \/ (v[1] = 0 /\ minusZero.re))

FromOriginAndBodyAliased(bodies, origin, i) ==
    [pos |-> VSub(bodies[i].pos, bodies[origin].pos),
     vel |-> VSub(bodies[i].old_pos, bodies[i].pos),
     rot |-> bodies[i].rot,
     rot_vel |-> (bodies[i].rot - bodies[i].old_rot) % RotSteps,
     radius |-> bodies[i].radius,
     mass |-> bodies[i].mass,
     body |-> i]

\* BodyView.from_origin_and_body: every field is computed or read as a
\* number; body is the index of a Body the view keeps a reference to (0:
\* none)
FromOriginAndBody(bodies, origin, i) ==
    [pos |-> VSub(bodies[i].pos, bodies[origin].pos),
     vel |-> VSub(bodies[i].old_pos, bodies[i].pos),
     rot |-> bodies[i].rot,
     rot_vel |-> (bodies[i].rot - bodies[i].old_rot) % RotSteps,
     radius |-> bodies[i].radius,
     mass |-> bodies[i].mass,
     body |-> 0]

\* util.raycast: the intersection of the ray with the line through l1 and
\* l2, or None.  det is an integer here, so abs(det) < 1e-12 is det = 0.
Raycast(origin, direction, l1, l2) ==
    LET line_dir == VSub(l2, l1)
        det == (direction[1] * (-line_dir[2])) - (direction[2] * (-line_dir[1]))
        rhs == VSub(l1, origin)
        num == rhs[1] * (-line_dir[2]) - rhs[2] * (-line_dir[1])
        n == IF det < 0 THEN -num ELSE num
        d == IF det < 0 THEN -det ELSE det
    IN IF det = 0 THEN [none |-> TRUE, at |-> origin]
       ELSE IF n < 0 THEN [none |-> TRUE, at |-> origin]
       ELSE [none |-> FALSE,
             at |-> VAdd(origin, <<SDiv(n * direction[1], d), SDiv(n * direction[2], d)>>)]

\* sim.py:200-208: the corners and the four walls.  top_right and
\* bottom_left are sums of two floats, real numbers on the x axis.
Walls ==
    LET top_left == WorldMin
        bottom_right == WorldMax
        top_right == <<bottom_right[1] + top_left[2], 0>>
        bottom_left == <<top_left[1] + bottom_right[2], 0>>
    IN <<<<top_left, top_right>>, <<top_right, bottom_right>>,
         <<bottom_right, bottom_left>>, <<bottom_left, top_left>>>>

\* The smallest of a non-empty set of numbers
Min(S) == CHOOSE x \in S : \A y \in S : x <= y

\* Game.generate_relative_view: the mapping and the wall distance it
\* returns, or the ValueError of min() of an empty list; passed is the set
\* of bodies a BodyView was made for
GenerateRelativeView(bodies, types, origin, minusZero) ==
    LET passes(i) ==
            /\ ~(NormSq(VSub(bodies[i].pos, bodies[origin].pos)) > VisionReach * VisionReach)
            /\ ~AboveCone(RelativeTo(bodies[origin], bodies[i]), minusZero)
        RECURSIVE Fill(_, _)
        Fill(i, view) ==
            IF i > Len(bodies) THEN view
            ELSE IF passes(i)
                 THEN Fill(i + 1, [c \in DOMAIN view \cup {types[i]} |->
                                      IF c = types[i] THEN FromOriginAndBody(bodies, origin, i)
                                      ELSE view[c]])
                 ELSE Fill(i + 1, view)
        pos == bodies[origin].pos
        rot == <<Cos(bodies[origin].rot), Sin(bodies[origin].rot)>>
        raycasts == {Raycast(pos, rot, Walls[w][1], Walls[w][2]) : w \in 1..Len(Walls)}
        distances == {CAbs(VSub(cast.at, pos)) : cast \in {c \in raycasts : ~c.none}}
    IN [raised |-> distances = {},
        bodies_view |-> Fill(1, [c \in {} |-> 0]),
        front_wall_view |-> IF distances = {} THEN 0 ELSE Min(distances),
        passed |-> {i \in 1..Len(bodies) : passes(i)}]

\* A caller asks for the view of one of the ships
GenerateView(origin, minusZero) ==
    /\ program = "view"
    /\ vwTypes[origin] = "Ship"
    /\ vwView' = [made |-> TRUE, origin |-> origin, at |-> vwBodies, changed |-> FALSE,
                  result |-> GenerateRelativeView(vwBodies, vwTypes, origin, minusZero)]
    /\ vwView' # vwView
    /\ UNCHANGED <<program, sbVars, dpVars, rnVars, pkVars, gmVars, mtVars, rvBody, rvSpins, jsChan,
                   vwBodies, vwTypes, vwSteps>>

\* Game.step while a caller holds the last view.  Seen is what the holder
\* reads afterwards: a BodyView that kept a reference shows the Body as it
\* is now
StepView(action_set, dt) ==
    /\ program = "view"
    /\ vwSteps < MaxViewSteps
    /\ vwBodies' = GameStep(vwBodies, (1 :> EnumOrder(action_set)), dt)
    /\ LET Seen(bodies_view) ==
               [c \in DOMAIN bodies_view |->
                   IF bodies_view[c].body = 0 THEN bodies_view[c]
                   ELSE [FromOriginAndBody(vwBodies', vwView.origin, bodies_view[c].body)
                            EXCEPT !.body = bodies_view[c].body]]
       IN vwView' = IF vwView.made /\ ~vwView.result.raised
                    THEN [vwView EXCEPT !.result.bodies_view = Seen(@)]
                    ELSE vwView
    /\ vwSteps' = vwSteps + 1
    /\ UNCHANGED <<program, sbVars, dpVars, rnVars, pkVars, gmVars, mtVars, rvBody, rvSpins, jsChan, vwTypes>>

\* The holder of a returned mapping assigns to a field of one BodyView
\* (BodyView is a dataclass that is not frozen)
MutateView(c) ==
    /\ program = "view"
    /\ vwView.made /\ ~vwView.result.raised /\ ~vwView.changed
    /\ c \in DOMAIN vwView.result.bodies_view
    /\ LET bv == vwView.result.bodies_view[c]
       IN /\ vwView' = [vwView EXCEPT !.changed = TRUE,
                                      !.result.bodies_view[c].mass = bv.mass + 1]
          /\ vwBodies' = IF bv.body = 0 THEN vwBodies
                         ELSE [vwBodies EXCEPT ![bv.body].mass = bv.mass + 1]
    /\ UNCHANGED <<program, sbVars, dpVars, rnVars, pkVars, gmVars, mtVars, rvBody, rvSpins, jsChan,
                   vwTypes, vwSteps>>

\* The worlds a view is asked in: the ship of standalone.py:202-211 or one
\* nearer the left wall, heading along an axis, a diagonal or 22.5 degrees
\* off the x axis, alone or with other bodies in the +x direction: near, at
\* the reach, beyond the reach
ViewWorlds ==
    LET ShipAt(pos, rot) == [Body(pos, 1, 2) EXCEPT !.rot = rot, !.old_rot = rot]
        Others(pos) ==
            {[bodies |-> <<>>, types |-> <<>>],
             [bodies |-> <<Body(VAdd(pos, <<20, 0>>), 2, 5)>>, types |-> <<"Body">>],
             [bodies |-> <<ShipAt(VAdd(pos, <<20, 0>>), 0)>>, types |-> <<"Ship">>],
             [bodies |-> <<Body(VAdd(pos, <<50, 0>>), 2, 5), ShipAt(VAdd(pos, <<60, 0>>), 0)>>,
              types |-> <<"Body", "Ship">>]}
    IN UNION {{[bodies |-> <<ShipAt(pos, rot)>> \o others.bodies,
                types |-> <<"Ship">> \o others.types] :
                  rot \in {0, 1, 2, 4, 8, 12, 14, 15}, others \in Others(pos)} :
              pos \in {<<30, 30>>, <<20, 50>>}}

ViewInit ==
    /\ \E w \in (IF program = "view" THEN ViewWorlds ELSE {ShipAlone}) :
           /\ vwBodies = w.bodies
           /\ vwTypes = w.types
    /\ vwView = [made |-> FALSE, origin |-> 1, at |-> <<>>, changed |-> FALSE,
                 result |-> [raised |-> FALSE, bodies_view |-> [c \in {} |-> 0],
                             front_wall_view |-> 0, passed |-> {}]]
    /\ vwSteps = 0

ViewNext ==
    \/ \E origin \in 1..Len(vwBodies), minusZero \in [re : BOOLEAN, im : BOOLEAN] :
           GenerateView(origin, minusZero)
    \/ \E action_set \in {{}, {"FORWARD", "LEFT"}} : StepView(action_set, 1)
    \/ \E c \in {"Ship", "Body"} : MutateView(c)

(* PhysicsSystem.integrate_forces with the orientation as a complex number  *)
(* (src/lib/sim.py).  rot and old_rot are pairs in hundredths, as the       *)
(* entries of CosTable are; a product is rounded toward zero to hundredths, *)
(* as a floating-point product is rounded to its precision.                 *)

\* integrate_forces calls in a behaviour (model bound)
MaxSpins == 3

RotationalVerletComplexRaw(body, dt) ==
    LET one == Cos(0)
        CMul(a, b) == <<SDiv(a[1] * b[1] - a[2] * b[2], one),
                        SDiv(a[1] * b[2] + a[2] * b[1], one)>>
        angle == SDiv(body.torque * dt * dt, body.inertia)
    IN CMul(CMul(CMul(body.rot, body.rot), <<body.old_rot[1], -body.old_rot[2]>>),
            <<Cos(angle), Sin(angle)>>)

\* PhysicsSystem._rotational_verlet: rot**2 * old_rot.conjugate() *
\* rect(1, rot_accel * dt**2), divided by its magnitude
RotationalVerletComplex(body, dt) ==
    LET one == Cos(0)
        CMul(a, b) == <<SDiv(a[1] * b[1] - a[2] * b[2], one),
                        SDiv(a[1] * b[2] + a[2] * b[1], one)>>
        angle == SDiv(body.torque * dt * dt, body.inertia)
        next_rot == CMul(CMul(CMul(body.rot, body.rot),
                              <<body.old_rot[1], -body.old_rot[2]>>),
                         <<Cos(angle), Sin(angle)>>)
    IN <<SDiv(one * next_rot[1], CAbs(next_rot)), SDiv(one * next_rot[2], CAbs(next_rot))>>

\* PhysicsSystem.add_torque, then PhysicsSystem.integrate_forces
IntegrateForcesComplex(torque, dt) ==
    /\ program = "rotor"
    /\ rvSpins < MaxSpins
    /\ LET body == [rvBody EXCEPT !.torque = @ + torque]
       IN rvBody' = ClearForces([body EXCEPT !.old_pos = body.pos,
                                             !.pos = PositionalVerlet(body, dt),
                                             !.old_rot = body.rot,
                                             !.rot = RotationalVerletComplex(body, dt)])
    /\ rvSpins' = rvSpins + 1
    /\ UNCHANGED <<program, sbVars, dpVars, rnVars, pkVars, gmVars, mtVars, vwVars,
                   jsChan>>

\* Torques of a ship turning left or right, none, and a larger one
RotorNext ==
    \E torque \in {-ShipTorque, 0, ShipTorque + 1}, dt \in GameDts :
        IntegrateForcesComplex(torque, dt)

(* JSONCommunicationChannel (src/lib/wasm_deployer.py).  A Python value is  *)
(* [t, s, items, kt, key]: its type, its content as written by repr (of a  *)
(* scalar), its items (of a list or tuple) or members (of a dict, in        *)
(* insertion order), and, of a member, the type and the repr of its key.    *)
(* A JSON text is the tree of its grammar, [t, s, items, name]: object,     *)
(* array, number (digits only), real (with a fraction), NaN, string,        *)
(* literal (true/false) or null; name is the name of a member of an object. *)

\* The dicts handed to the channel: up to two members, keys that are
\* strings or an int, values of every kind json.dumps tells apart
JsonInputs ==
    LET Value(t, s, items) == [t |-> t, s |-> s, items |-> items, kt |-> "", key |-> ""]
        Int1 == Value("int", "1", <<>>)
        Keys == {[kt |-> "str", key |-> "a"], [kt |-> "str", key |-> "1"],
                 [kt |-> "int", key |-> "1"]}
        Values == {Int1, Value("str", "x", <<>>), Value("bool", "True", <<>>),
                   Value("none", "None", <<>>), Value("float", "1.5", <<>>),
                   Value("float", "nan", <<>>), Value("list", "", <<Int1>>),
                   Value("tuple", "", <<Int1>>), Value("function", "", <<>>)}
        Member(k, x) == [x EXCEPT !.kt = k.kt, !.key = k.key]
    IN {Value("dict", "", <<>>)}
       \cup {Value("dict", "", <<Member(k, x)>>) : k \in Keys, x \in Values}
       \cup UNION {{Value("dict", "", <<Member(k, x), Member(h, y)>>) :
                        h \in Keys \ {k}, x \in Values,
                        y \in {Int1, Value("list", "", <<Int1>>)}} : k \in Keys}

\* json.dumps: the JSON text of a Python value, or TypeError.  The key of a
\* member is written as a string whatever its type (str, int); a tuple is
\* written as a list is; nan is written as NaN (allow_nan is left at True).
RECURSIVE Dumps(_)
Dumps(x) ==
    LET Text(t, s, items) == [t |-> t, s |-> s, items |-> items, name |-> ""]
        Items == [i \in 1..Len(x.items) |->
                     [Dumps(x.items[i]) EXCEPT
                         !.name = IF x.t = "dict" THEN x.items[i].key ELSE ""]]
    IN CASE x.t \in {"dict", "list", "tuple"} ->
                IF \E i \in 1..Len(x.items) : Items[i].t = "TypeError"
                THEN Text("TypeError", "", <<>>)
                ELSE Text(IF x.t = "dict" THEN "object" ELSE "array", "", Items)
         [] x.t = "int" -> Text("number", x.s, <<>>)
         [] x.t = "float" -> Text(IF x.s = "nan" THEN "NaN" ELSE "real", x.s, <<>>)
         [] x.t = "str" -> Text("string", x.s, <<>>)
         [] x.t = "bool" -> Text("literal", x.s, <<>>)
         [] x.t = "none" -> Text("null", x.s, <<>>)
         [] OTHER -> Text("TypeError", "", <<>>)

RECURSIVE LoadsArraysAsTuples(_)
LoadsArraysAsTuples(j) ==
    LET Value(t, s, items) == [t |-> t, s |-> s, items |-> items, kt |-> "", key |-> ""]
    IN CASE j.t = "object" ->
                Value("dict", "",
                      [i \in 1..Len(j.items) |->
                          [LoadsArraysAsTuples(j.items[i]) EXCEPT
                              !.kt = "str", !.key = j.items[i].name]])
         [] j.t = "array" ->
                Value("tuple", "",
                      [i \in 1..Len(j.items) |-> LoadsArraysAsTuples(j.items[i])])
         [] j.t = "number" -> Value("int", j.s, <<>>)
         [] j.t = "real" -> Value("float", j.s, <<>>)
         [] j.t = "NaN" -> Value("float", "nan", <<>>)
         [] j.t = "string" -> Value("str", j.s, <<>>)
         [] j.t = "literal" -> Value("bool", j.s, <<>>)
         [] OTHER -> Value("none", "None", <<>>)

\* json.loads: an object becomes a dict with string keys (of a name written
\* twice the first place and the last value are kept), an array a list, a
\* number an int or, written with a fraction or as NaN, a float
RECURSIVE Loads(_)
Loads(j) ==
    LET Value(t, s, items) == [t |-> t, s |-> s, items |-> items, kt |-> "", key |-> ""]
        n == Len(j.items)
        Last(i) == CHOOSE h \in i..n :
                       /\ j.items[h].name = j.items[i].name
                       /\ \A g \in (h + 1)..n : j.items[g].name # j.items[i].name
        First(i) == \A h \in 1..(i - 1) : j.items[h].name # j.items[i].name
        Places == SelectSeq([i \in 1..n |-> i], First)
    IN CASE j.t = "object" ->
                Value("dict", "",
                      [p \in 1..Len(Places) |->
                          [Loads(j.items[Last(Places[p])]) EXCEPT
                              !.kt = "str", !.key = j.items[Places[p]].name]])
         [] j.t = "array" ->
                Value("list", "", [i \in 1..n |-> Loads(j.items[i])])
         [] j.t = "number" -> Value("int", j.s, <<>>)
         [] j.t = "real" -> Value("float", j.s, <<>>)
         [] j.t = "NaN" -> Value("float", "nan", <<>>)
         [] j.t = "string" -> Value("str", j.s, <<>>)
         [] j.t = "literal" -> Value("bool", j.s, <<>>)
         [] OTHER -> Value("none", "None", <<>>)

\* JSONCommunicationChannel.validate_json_data
ValidateJsonData(data) == Dumps(data).t # "TypeError"

\* JSONCommunicationChannel.serialize_input: the text, or ValueError
SerializeInput(data) ==
    IF ~ValidateJsonData(data)
    THEN [t |-> "ValueError", s |-> "", items |-> <<>>, name |-> ""]
    ELSE Dumps(data)

\* JSONCommunicationChannel.deserialize_output of a text json.dumps wrote
DeserializeOutput(json_str) == Loads(json_str)

\* test_wasm_deployer.py:104-127: validate, serialize, deserialize
JsonNext ==
    /\ program = "json"
    /\ \/ /\ jsChan.pc = "made"
          /\ jsChan' = [jsChan EXCEPT !.pc = "validated",
                                      !.valid = ValidateJsonData(jsChan.input)]
       \/ /\ jsChan.pc \in {"made", "validated"}
          /\ jsChan' = [jsChan EXCEPT
                           !.pc = IF SerializeInput(jsChan.input).t = "ValueError"
                                  THEN "raised" ELSE "serialized",
                           !.valid = ValidateJsonData(jsChan.input),
                           !.text = SerializeInput(jsChan.input)]
       \/ /\ jsChan.pc = "serialized"
          /\ jsChan' = [jsChan EXCEPT !.pc = "deserialized",
                                      !.output = DeserializeOutput(jsChan.text)]
    /\ UNCHANGED <<program, sbVars, dpVars, rnVars, pkVars, gmVars, mtVars, vwVars,
                   rvBody, rvSpins>>

AllInit ==
    /\ SandboxInit
    /\ DeployerInit
    /\ RunnerInit
    /\ PuckInit
    /\ GameInit
    /\ MatchInit
    /\ ViewInit
    /\ rvBody \in {[Body(<<30, 30>>, 1, 2) EXCEPT !.rot = <<Cos(k), Sin(k)>>,
                                                  !.old_rot = <<Cos(k), Sin(k)>>] :
                       k \in (IF program = "rotor" THEN 0..3 ELSE {0})}
    /\ rvSpins = 0
    /\ LET Empty == [t |-> "dict", s |-> "", items |-> <<>>, kt |-> "", key |-> ""]
       IN jsChan \in {[input |-> d, pc |-> "made", valid |-> FALSE,
                       text |-> [t |-> "null", s |-> "", items |-> <<>>, name |-> ""],
                       output |-> Empty] :
                          d \in (IF program = "json" THEN JsonInputs ELSE {Empty})}

Init ==
    /\ program \in {"sandbox", "deployer", "runner", "puck", "env", "game", "match",
                    "view", "rotor", "json"}
    /\ AllInit

Next ==
    \/ SandboxNext
    \/ DeployerNext
    \/ RunnerNext
    \/ PuckNext
    \/ EnvNext
    \/ GameNext
    \/ MatchNext
    \/ ViewNext
    \/ RotorNext
    \/ JsonNext

Spec == Init /\ [][Next]_vars

SandboxProgram ==
    /\ program = "sandbox"
    /\ AllInit

SandboxSpec == SandboxProgram /\ [][SandboxNext]_vars

DeployerProgram ==
    /\ program = "deployer"
    /\ AllInit

DeployerSpec == DeployerProgram /\ [][DeployerNext]_vars

RunnerProgram ==
    /\ program = "runner"
    /\ AllInit

RunnerSpec == RunnerProgram /\ [][RunnerNext]_vars

PuckProgram ==
    /\ program = "puck"
    /\ AllInit

PuckSpec == PuckProgram /\ [][PuckNext]_vars

EnvProgram ==
    /\ program = "env"
    /\ AllInit

EnvSpec == EnvProgram /\ [][EnvNext]_vars

GameProgram ==
    /\ program = "game"
    /\ AllInit

GameSpec == GameProgram /\ [][GameNext]_vars

MatchProgram ==
    /\ program = "match"
    /\ AllInit

MatchSpec == MatchProgram /\ [][MatchNext]_vars

ViewProgram ==
    /\ program = "view"
    /\ AllInit

ViewSpec == ViewProgram /\ [][ViewNext]_vars

RotorProgram ==
    /\ program = "rotor"
    /\ AllInit

RotorSpec == RotorProgram /\ [][RotorNext]_vars

JsonProgram ==
    /\ program = "json"
    /\ AllInit

JsonSpec == JsonProgram /\ [][JsonNext]_vars

\* The sandbox with the fairness its execution has: a guest that is not in
\* an endless loop comes to the end of its export (it returns or traps), and
\* a guest in a loop keeps being run by the engine.
FairSandboxSpec ==
    /\ SandboxProgram
    /\ [][SandboxNext]_vars
    /\ WF_vars(GuestReturn \/ GuestTrap)
    /\ WF_vars(GuestSpin)

-----------------------------------------------------------------------------
(* Claims                                                                  *)

InGuest == sbPc \in {"running", "looping"}
DpInGuest == dpPc \in {"running", "looping"}

\* C1: the action BotSandbox.update returns is the no-op 0+0j unless the guest
\* reported a finite action through send_action during that same update call.
C1_NoStaleAction ==
    (sbPc = "ready" /\ sbEntry = "update" /\ sbOutcome = "returned" /\ ~sbReported)
        => sbRet = <<0, 0>>

\* C2: no sandbox-facing invocation raises to its caller: BotSandbox.update
\* and WasmDeployer.execute always return a value.
C2_NeverRaises == sbOutcome # "raised" /\ dpOutcome # "raised"

\* C3: every call into the guest eventually returns control to the caller,
\* also when the guest never terminates.
C3_AlwaysReturns == InGuest ~> (sbPc = "ready")

\* C4: a result produced by fuel exhaustion carries a status of its own,
\* FuelExhausted, distinct from Timeout and from an error.
C4_FuelExhaustedStatus ==
    (dpOutcome = "returned" /\ dpResult.cause = "fuel")
        => dpResult.status = "fuel_exhausted"

\* C5: BotSandbox.color is the most recent set_color report whose components
\* were all finite and in [0,1], or the initial (1,1,1); a rejected report
\* leaves it unchanged, so every component is always in [0,1].
C5_ColorIsLastValidReport ==
    /\ sbColor = sbLastValid
    /\ \A i \in 1..3 : 0 <= sbColor[i] /\ sbColor[i] <= 1

\* C5 witness: an out-of-range report came after a valid report that had
\* changed the colour, and the colour of the valid report is still held.
C5_Witness == sbLastReport = "range" /\ sbColor = <<0, 1, 0>>

\* C7: a bot whose program fails to load, lacks init or update, or is
\* rejected by prepare_module is never admitted: a sandbox exists and the
\* submitter is told "success" only for a module that loads with both
\* exports; a rejected register_bot returns False and leaves self.bots as it
\* was; every registered script passed prepare_module; execute_bot of an
\* unregistered id calls no deployer and returns the empty set.
C7_NeverAdmitted ==
    /\ (sbPc \notin {"unloaded", "failed"} \/ submitReply = "success")
           => (sbFile.loads /\ sbFile.hasInit /\ sbFile.hasUpdate)
    /\ (sbPc = "failed" => (sbInstance = 0 /\ sbEntry = "none"))
    /\ (lastOp = "register" /\ PrepareModuleRaises(lastScript))
           => (~regOk /\ bots = botsBefore)
    /\ \A b \in BotIds : bots[b] # NoScript => ~PrepareModuleRaises(bots[b])
    /\ (lastOp = "execute" /\ bots[lastBot] = NoScript)
           => (~exRan /\ ~exFresh /\ exActions = {})

\* C7 witness: a rejected registration under an id that already held a script
C7_Witness ==
    /\ lastOp = "register"
    /\ PrepareModuleRaises(lastScript)
    /\ bots[lastBot] # NoScript

\* C8 (as stated): the instance made at registration, with its memory, serves
\* every invocation, for BotSandbox.update and for the deployer's execute:
\* what the guest stored in one invocation is there in the next.
C8_SameInstanceEveryTick ==
    /\ (InGuest /\ sbCalls) => (sbEntryMem = sbExitMem /\ sbServing = 1)
    /\ (DpInGuest /\ dpCalls) => dpEntryMem = dpExitMem
    /\ ~exFresh

\* C8 (amended): BotSandbox keeps one instance, so a call finds the memory
\* the previous call left, also after a trap; WasmDeployer.execute (and so
\* WasmBotRunner.execute_bot) makes a store and an instance per execution,
\* so every execution starts from the initial guest memory.
C8_SandboxPersistsDeployerResets ==
    /\ (InGuest /\ sbCalls) => (sbEntryMem = sbExitMem /\ sbServing = 1)
    /\ DpInGuest => dpEntryMem = 0
    /\ (lastOp = "execute" /\ exStatus = "success") => exFresh

\* C8 witness: an update that follows a trapped call finds the value the
\* guest had stored
C8_Witness ==
    /\ sbPc = "running"
    /\ sbEntry = "update"
    /\ sbCalls
    /\ sbOutcome = "raised"
    /\ sbEntryMem = 1

\* C9: every invocation of a bot runs under a fuel bound, starting with the
\* full budget max_fuel.
C9_EveryInvocationFuelBounded ==
    /\ InGuest => sbStore.consume_fuel
    /\ DpInGuest => dpFuel.limited

\* C6: Environment.apply_action changes the puck's velocity by dt * a', where
\* a' is the reported acceleration a when |a| <= max_puck_accel and otherwise
\* has the direction of a and magnitude max_puck_accel; so the change never
\* exceeds dt * max_puck_accel in magnitude.
C6_ApplyActionClamps ==
    (program = "puck" /\ pkApplied > 0) =>
        LET a == pkLast.action
            dt == pkLast.dt
            dv == VSub(pucks[pkLast.puck].vel, pkLast.velBefore)
            limitSq == MaxPuckAccel * MaxPuckAccel
        IN /\ NormSq(a) <= limitSq => dv = VScale(dt, a)
           /\ NormSq(a) > limitSq =>
                 /\ NormSq(dv) = dt * dt * limitSq
                 /\ Cross(dv, a) = 0
                 /\ Dot(dv, a) > 0
           /\ NormSq(dv) <= dt * dt * limitSq

\* An acceleration of twice the limit was applied for dt = 2 to a puck that
\* was already moving
C6_Witness ==
    /\ program = "puck"
    /\ pkLast.action = <<6, 8>>
    /\ pkLast.dt = 2
    /\ pkLast.velBefore # <<0, 0>>
    /\ pucks[pkLast.puck].vel = VAdd(pkLast.velBefore, <<6, 8>>)

\* C10: Game.step is deterministic: two games in the same state that are
\* given the same action map and dt end in the same state, whatever the
\* order in which each iterates the ship's action set.
C10_StepIndependentOfSetOrder ==
    program = "game" => gmBodies = gmReplay

\* A step turned and thrust the ship with an action set of three or more
\* members that the two games iterated in different orders
C10_Witness ==
    /\ program = "game"
    /\ gmTicks >= 2
    /\ gmLast.differ
    /\ {"FORWARD", "LEFT"} \subseteq gmLast.actions
    /\ Cardinality(gmLast.actions) >= 3
    /\ gmBodies[1].rot # gmBodies[1].old_rot
    /\ gmBodies[1].pos # gmBodies[1].old_pos

RECURSIVE TotalForce(_)
TotalForce(bodies) ==
    IF bodies = <<>> THEN <<0, 0>> ELSE VAdd(Head(bodies).force, TotalForce(Tail(bodies)))

C13_GravityMagnitudeInverseSquare ==
    (program = "match" /\ mtTicks > 0 /\ Len(mtBodies) = 2) =>
        \A i \in 1..2 :
            LET me == mtLast.input[i]
                other == mtLast.input[3 - i]
                added == VSub(mtLast.loaded[i].force, me.force)
                diff == VSub(other.pos, me.pos)
                k == GravityConst * me.mass * other.mass
            IN NormSq(diff) > 0 =>
                   /\ (CAbs(added) - 2) * NormSq(diff) <= k
                   /\ k <= (CAbs(added) + 2) * NormSq(diff)
                   /\ Dot(added, diff) >= 0
                   /\ Cross(added, diff) * Cross(added, diff) <= NormSq(diff)

\* C20: after every Game.step every body has force 0 and torque 0, so every
\* step starts its input and gravity phases from cleared forces and nothing
\* applied in one tick reaches a later tick's integration.
C20_ForcesClearedAfterStep ==
    program = "match" =>
        /\ \A i \in 1..Len(mtBodies) : mtBodies[i].force = <<0, 0>> /\ mtBodies[i].torque = 0
        /\ \A i \in 1..Len(mtBodies) : mtLast.prev[i].force = <<0, 0>> /\ mtLast.prev[i].torque = 0

\* A step that integrated a thrust or gravity force and a torque
C20_Witness ==
    /\ program = "match" /\ mtTicks > 1
    /\ \E i \in 1..Len(mtBodies) : mtLast.loaded[i].force # <<0, 0>> /\ mtLast.loaded[i].torque # 0

\* C15: a body is reported as visible to the origin ship exactly if it is
\* at most ship_vision_reach away and the angle between the heading and the
\* vector to it is at most ship_vision_cone, to the left or to the right
\* (stated for the bodies that are not at the origin's own position).
C15_VisibleIffInReachAndCone ==
    (program = "view" /\ vwView.made /\ ~vwView.result.raised) =>
        \A i \in 1..Len(vwBodies) :
            LET origin == vwView.at[vwView.origin]
                v == RelativeTo(origin, vwView.at[i])
                inReach == NormSq(VSub(vwView.at[i].pos, origin.pos)) <= VisionReach * VisionReach
                inCone == v[1] > 0 /\ ConeCotSq * v[2] * v[2] <= v[1] * v[1]
            IN v # <<0, 0>> => (i \in vwView.result.passed <=> (inReach /\ inCone))

\* C16: the mapping generate_relative_view returns holds one BodyView for
\* every body that passed the visibility test, also when several of them
\* are of the same class.
C16_OneViewPerVisibleBody ==
    (program = "view" /\ vwView.made /\ ~vwView.result.raised) =>
        Cardinality(DOMAIN vwView.result.bodies_view) = Cardinality(vwView.result.passed)

\* C17: for every ship position inside the world rectangle and every
\* heading, generate_relative_view finds a wall intersection in front of the
\* ship and returns a nearest-wall distance; it never fails for lack of one.
C17_WallAlwaysFound ==
    (program = "view" /\ vwView.made) =>
        LET pos == vwView.at[vwView.origin].pos
        IN (/\ WorldMin[1] <= pos[1] /\ pos[1] <= WorldMax[1]
            /\ WorldMin[2] <= pos[2] /\ pos[2] <= WorldMax[2]) => ~vwView.result.raised

\* C18: the nearest-wall distance that is returned is the distance from the
\* ship, along its heading, to the first point of the boundary of the
\* rectangle spanned by world_min and world_max: the smallest distance to an
\* intersection, not behind the ship, with one of the rectangle's four sides.
C18_WallDistanceIsFirstBoundaryPoint ==
    (program = "view" /\ vwView.made /\ ~vwView.result.raised) =>
        LET origin == vwView.at[vwView.origin]
            rot == <<Cos(origin.rot), Sin(origin.rot)>>
            corners == <<WorldMin, <<WorldMax[1], WorldMin[2]>>, WorldMax,
                         <<WorldMin[1], WorldMax[2]>>>>
            sides == {<<corners[k], corners[(k % 4) + 1]>> : k \in 1..4}
            hits == {c \in {Raycast(origin.pos, rot, s[1], s[2]) : s \in sides} : ~c.none}
        IN /\ hits # {}
           /\ vwView.result.front_wall_view = Min({CAbs(VSub(c.at, origin.pos)) : c \in hits})

\* C19: a BodyView is a value copied at generation time: while a returned
\* mapping is held, a Game.step that changes the bodies leaves every field
\* of its BodyViews as it was, and a change of a BodyView changes no Body.
C19_ViewIsAValueCopy ==
    [][(/\ program = "view"
        /\ vwView.made /\ ~vwView.result.raised
        /\ vwView'.made /\ vwView'.at = vwView.at /\ vwView'.origin = vwView.origin) =>
           /\ vwBodies' # vwBodies => vwView'.result.bodies_view = vwView.result.bodies_view
           /\ vwView'.result.bodies_view # vwView.result.bodies_view => vwBodies' = vwBodies]_vars

\* A view that was generated, then outlived a step that moved a body it
\* shows, and was changed by its holder
C19_Witness ==
    /\ program = "view"
    /\ vwView.made /\ ~vwView.result.raised /\ vwView.changed
    /\ \E i \in vwView.result.passed :
           /\ vwBodies[i].pos # vwView.at[i].pos
           /\ vwBodies[i].mass = vwView.at[i].mass

C24_ActionsAppliedBeforeMove ==
    /\ (program = "match" /\ mtTicks > 0 /\ "FORWARD" \in mtLast.actions) =>
           mtBodies[1].pos # GameStep(mtLast.prev, <<>>, mtLast.dt)[1].pos
    /\ (program = "match" /\ mtTicks > 0 /\ mtLast.actions \in {{"LEFT"}, {"RIGHT"}}) =>
           mtBodies[1].rot # GameStep(mtLast.prev, <<>>, mtLast.dt)[1].rot
    /\ (program = "env" /\ pkUpdates > 0) =>
           \A i \in DOMAIN pkUpdate.actions :
               ClampAction(pkUpdate.actions[i]) # <<0, 0>> =>
                   pucks[i].pos # VAdd(pkUpdate.resolved[i].pos,
                                       VScale(pkUpdate.dt, pkUpdate.resolved[i].vel))

\* C25: with three or more pucks, after the whole collision phase of
\* Environment.update every pair that was detected as colliding in the tick
\* (and is not at one point) has a relative velocity along its normal that
\* is >= 0.
C25_AllPairsSeparateAfterPhase ==
    (program = "env" /\ pkUpdates > 0 /\ Len(pucks) >= 3) =>
        \A k \in 1..Len(pkUpdate.pairs) :
            LET a == pkUpdate.pairs[k][1]
                b == pkUpdate.pairs[k][2]
                n == VSub(pkUpdate.before[a].pos, pkUpdate.before[b].pos)
            IN (n # <<0, 0>> /\ (n[1] = 0 \/ n[2] = 0)) =>
                   Dot(VSub(pkUpdate.resolved[a].vel, pkUpdate.resolved[b].vel), n) >= 0

\* C29: the resolution of one colliding pair changes the two velocities by
\* equal and opposite amounts along the normal between the centres: the sum
\* of the two velocities is unchanged and so is each puck's velocity
\* component across the normal; for two pucks at one point neither
\* velocity changes.
C29_PairResolutionKeepsSumAndTangent ==
    (program = "env" /\ pkUpdates > 0) =>
        \A k \in 1..Len(pkUpdate.log) :
            LET e == pkUpdate.log[k]
                n == VSub(pkUpdate.before[e.a].pos, pkUpdate.before[e.b].pos)
            IN /\ VSub(e.new_a_vel, e.a_vel) = VSub(e.b_vel, e.new_b_vel)
               /\ VAdd(e.new_a_vel, e.new_b_vel) = VAdd(e.a_vel, e.b_vel)
               /\ (n # <<0, 0>> /\ (n[1] = 0 \/ n[2] = 0)) =>
                      /\ Cross(e.new_a_vel, n) = Cross(e.a_vel, n)
                      /\ Cross(e.new_b_vel, n) = Cross(e.b_vel, n)
               /\ n = <<0, 0>> => (e.new_a_vel = e.a_vel /\ e.new_b_vel = e.b_vel)

\* An approaching pair whose relative velocity also has a part across the
\* normal was resolved and both velocities changed
C29_Witness ==
    /\ program = "env" /\ pkUpdates > 0
    /\ \E k \in 1..Len(pkUpdate.log) :
           LET e == pkUpdate.log[k]
               n == VSub(pkUpdate.before[e.a].pos, pkUpdate.before[e.b].pos)
           IN /\ n # <<0, 0>>
              /\ Cross(VSub(e.a_vel, e.b_vel), n) # 0
              /\ e.new_a_vel # e.a_vel
              /\ e.new_b_vel # e.b_vel

C26_ViewIsRelativeToOrigin ==
    (program = "view" /\ vwView.made /\ ~vwView.result.raised /\ vwSteps = 0) =>
        LET passed == vwView.result.passed
            origin == vwView.at[vwView.origin]
        IN \A i \in passed :
               (\A j \in passed : vwTypes[j] = vwTypes[i] => j <= i) =>
                   LET view == vwView.result.bodies_view[vwTypes[i]]
                   IN /\ view.pos = VSub(vwView.at[i].pos, origin.pos)
                      /\ view.rot = (vwView.at[i].rot - origin.rot) % RotSteps

C27_DampedByOwnConfig ==
    (program = "env" /\ pkUpdates > 0) =>
        \A i \in 1..Len(pucks) :
            LET d == pkConfig.damping
                Damped(v) == IF pkUpdate.dt = 1 THEN SDiv(v * d.num, d.den)
                             ELSE SDiv(v * d.num * d.num, d.den * d.den)
                accel == IF i \in DOMAIN pkUpdate.actions
                         THEN VScale(pkUpdate.dt, ClampAction(pkUpdate.actions[i]))
                         ELSE <<0, 0>>
                vel == pkUpdate.resolved[i].vel
            IN VSub(pucks[i].vel, accel) = <<Damped(vel[1]), Damped(vel[2])>>

\* C22: every script with an import statement that names a module of the
\* blocked set, in any form of the statement (import m, import m as n,
\* import a, m, from m import x, after another statement on the line), or
\* with a call of exec, eval, __import__, open or file, is rejected:
\* register_bot returns False and stores nothing, and execute_bot's
\* execute_python_script returns ERROR without making an instance.
C22_BlockedScriptsRejected ==
    LET NonBlank(line) == {h \in 1..Len(line) : ~IsBlank(line[h])}
        Prev(line, j) == {h \in NonBlank(line) :
                             h < j /\ \A g \in NonBlank(line) : g < j => g <= h}
        Succ(line, j) == {h \in NonBlank(line) :
                             h > j /\ \A g \in NonBlank(line) : g > j => h <= g}
        ImportsBlocked(line) ==
            \E j \in 1..Len(line) :
                /\ line[j] \in BLOCKED_IMPORTS
                /\ \E h \in Prev(line, j) :
                       \/ line[h] = "from" /\ \E k \in (j + 1)..Len(line) : line[k] = "import"
                       \/ /\ line[h] \in {"import", ","}
                          /\ \A g \in 1..Len(line) : line[g] # "from"
                          /\ \E g \in 1..h : line[g] = "import"
        CallsDangerous(line) ==
            \E j \in 1..Len(line) :
                \/ line[j] \in {"exec(", "eval(", "__import__(", "open(", "file("}
                \/ /\ line[j] \in {"exec", "eval", "__import__", "open", "file"}
                   /\ \E h \in Succ(line, j) : line[h] = "("
        Blocked(script) ==
            \E i \in 1..Len(script) : ImportsBlocked(script[i]) \/ CallsDangerous(script[i])
    IN program = "runner" =>
           /\ (lastOp = "register" /\ Blocked(lastScript)) => (~regOk /\ bots = botsBefore)
           /\ (lastOp = "execute" /\ exRan /\ Blocked(bots[lastBot])) =>
                  (exStatus = "error" /\ ~exFresh)

\* C21: a body whose rot and old_rot start with magnitude 1 has, after any
\* sequence of integrate_forces calls with any torques, rot and old_rot of
\* magnitude 1 within the rounding of the arithmetic (two hundredths here):
\* every rotational step divides its result by its magnitude.
C21_OrientationStaysUnit ==
    program = "rotor" =>
        /\ CAbs(rvBody.rot) \in (Cos(0) - 2)..(Cos(0) + 2)
        /\ CAbs(rvBody.old_rot) \in (Cos(0) - 2)..(Cos(0) + 2)

\* A body was integrated as often as the bound allows with a torque at least
\* once, and its heading changed
C21_Witness ==
    /\ program = "rotor"
    /\ rvSpins = MaxSpins
    /\ rvBody.rot # rvBody.old_rot

\* Python's == on the values of the model: numbers by value (True is 1),
\* nan equal to nothing, a list never equal to a tuple, dicts by their keys
\* (1 is not "1") and the values under them
RECURSIVE PyEq(_, _)
PyEq(x, y) ==
    LET Numeric(z) == z.t \in {"int", "bool", "float"}
        Num(z) == IF z.t = "bool" THEN (IF z.s = "True" THEN "1" ELSE "0") ELSE z.s
    IN IF x.t = "function" \/ y.t = "function" THEN FALSE
       ELSE IF Numeric(x) /\ Numeric(y)
       THEN x.s # "nan" /\ y.s # "nan" /\ Num(x) = Num(y)
       ELSE IF x.t # y.t THEN FALSE
       ELSE IF x.t \in {"list", "tuple"}
       THEN /\ Len(x.items) = Len(y.items)
            /\ \A i \in 1..Len(x.items) : PyEq(x.items[i], y.items[i])
       ELSE IF x.t = "dict"
       THEN /\ Len(x.items) = Len(y.items)
            /\ \A i \in 1..Len(x.items) : \E h \in 1..Len(y.items) :
                   /\ x.items[i].kt = y.items[h].kt
                   /\ x.items[i].key = y.items[h].key
                   /\ PyEq(x.items[i], y.items[h])
       ELSE x.s = y.s

\* C23: for every dict d for which validate_json_data(d) is True,
\* deserialize_output(serialize_input(d)) equals d.
C23_JsonRoundTrip ==
    (program = "json" /\ jsChan.pc = "deserialized" /\ ValidateJsonData(jsChan.input)) =>
        PyEq(jsChan.output, jsChan.input)

\* C23, amended: for every dict d whose keys are all strings and whose
\* values are None, booleans, ints, finite floats, strings or lists of
\* such values, validate_json_data(d) is True and
\* deserialize_output(serialize_input(d)) equals d.  (A key that is not a
\* string comes back as a string, a tuple as a list, and nan as a nan that
\* equals nothing.)
C23_PlainJsonRoundTrip ==
    LET Scalar(x) == x.t \in {"none", "bool", "int", "str"} \/ (x.t = "float" /\ x.s # "nan")
        Plain(x) == Scalar(x) \/ (x.t = "list" /\ \A i \in 1..Len(x.items) : Scalar(x.items[i]))
        PlainDict(d) == \A i \in 1..Len(d.items) : d.items[i].kt = "str" /\ Plain(d.items[i])
    IN (program = "json" /\ PlainDict(jsChan.input)) =>
           /\ ValidateJsonData(jsChan.input)
           /\ jsChan.pc # "raised"
           /\ jsChan.pc \in {"validated", "serialized", "deserialized"} => jsChan.valid
           /\ jsChan.pc = "deserialized" => PyEq(jsChan.output, jsChan.input)

\* A dict of two string keys, a float under one and a list under the other,
\* made the round trip
C23_Witness ==
    /\ program = "json"
    /\ jsChan.pc = "deserialized"
    /\ Len(jsChan.input.items) = 2
    /\ \A i \in 1..2 : jsChan.input.items[i].kt = "str"
    /\ jsChan.input.items[1].t = "float"
    /\ jsChan.input.items[1].s # "nan"
    /\ jsChan.input.items[2].t = "list"

=========================================================================
